---- MODULE Spec2Model ----
(***************************************************************************)
(* update_manifest.py: scan docs/ for *.html entries, read a date from     *)
(* each name's _MM-DD-YY.html suffix, order the names (dated newest first, *)
(* then undated alphabetically) and write them to docs/files.json.         *)
(*                                                                         *)
(* Text is modelled as sequences of one-character strings, so that the     *)
(* pattern match, the digit conversion, the string comparison and the JSON *)
(* encoding are computed rather than assumed.                              *)
(***************************************************************************)
EXTENDS Integers, Sequences, FiniteSets, TLC

VARIABLES
    docs_exists,          \* Path('docs').exists()
    entries,              \* names directly inside docs/, files.json apart
    files_json,           \* content of docs/files.json, or NoFile
    html_files,           \* main's list from glob, in enumeration order
    files_with_dates,     \* main's list of <<date, filename>>, after the sort
    files_without_dates,  \* main's list of undated filenames
    sorted_filenames,     \* main's list handed to json.dump
    stdout,               \* lines printed by the latest run
    exit_status,          \* NotRun, or the latest run's exit status
    before,               \* filesystem as the latest run found it
    prev_ties,            \* same-date names as the run before the latest found them
    unchanged,            \* the directory was not touched between the last two runs
    dirty,                \* the directory was touched since the latest run
    runs,                 \* completed runs
    edits,                \* directory changes made by the environment
    input                 \* parts the single entry's name was rendered from

vars == <<docs_exists, entries, files_json, html_files, files_with_dates,
          files_without_dates, sorted_filenames, stdout, exit_status, before,
          prev_ties, unchanged, dirty, runs, edits, input>>

\* ------------------------------------------------------------------ bounds

MaxFiles == 4      \* entries of the directory of a single run
MaxEntries == 2    \* entries of the directory that is run on and changed
MaxRuns == 2       \* runs in a row
MaxEdits == 1      \* changes of the directory between them

\* -------------------------------------------------------------------- text

Lower == <<"a", "b", "c", "d", "e", "f", "g", "h", "i", "j", "k", "l", "m",
           "n", "o", "p", "q", "r", "s", "t", "u", "v", "w", "x", "y", "z">>

Digits == <<"0", "1", "2", "3", "4", "5", "6", "7", "8", "9">>

Range(s) == {s[i] : i \in 1..Len(s)}

IsDigit(c) == c \in Range(Digits)

\* int() of one decimal digit
DigitVal(c) == (CHOOSE i \in 1..10 : Digits[i] = c) - 1

\* int() of a run of decimal digits: leading zeros do not count
RECURSIVE int(_)
int(ds) == IF ds = <<>> THEN 0
           ELSE 10 * int(SubSeq(ds, 1, Len(ds) - 1)) + DigitVal(ds[Len(ds)])

\* ord(): the code point, which orders Python's str comparison
ord(c) ==
    CASE c = "\n" -> 10
      [] c = "\"" -> 34
      [] c = "-" -> 45
      [] c = "." -> 46
      [] IsDigit(c) -> 48 + DigitVal(c)
      [] c = "H" -> 72
      [] c = "L" -> 76
      [] c = "M" -> 77
      [] c = "T" -> 84
      [] c = "\\" -> 92
      [] c = "_" -> 95
      [] OTHER -> 96 + (CHOOSE i \in 1..26 : Lower[i] = c)

\* str.__lt__: the first differing code point decides, a proper prefix is less
RECURSIVE str_lt(_, _)
str_lt(a, b) ==
    IF b = <<>> THEN FALSE
    ELSE IF a = <<>> THEN TRUE
    ELSE IF a[1] = b[1] THEN str_lt(Tail(a), Tail(b))
    ELSE ord(a[1]) < ord(b[1])

\* s[p .. p+Len(lit)-1] = lit
LitAt(s, p, lit) ==
    /\ p >= 1
    /\ p + Len(lit) - 1 <= Len(s)
    /\ SubSeq(s, p, p + Len(lit) - 1) = lit

\* \d{n} at p
DigitsAt(s, p, n) ==
    /\ p >= 1
    /\ p + n - 1 <= Len(s)
    /\ \A i \in p..(p + n - 1) : IsDigit(s[i])

DotHtml == <<".", "h", "t", "m", "l">>

\* ------------------------------------------------- extract_date_from_filename

None == [kind |-> "None"]

\* $ of the pattern: the end of the text, or just before a final newline
AtEnd(s, p) == p = Len(s) + 1 \/ (p = Len(s) /\ s[p] = "\n")

\* The pattern _(\d{1,2})-(\d{1,2})-(\d{2})\.html$ tried at position i with
\* lm digits in the first group and ld in the second.
PatternAt(s, i, lm, ld) ==
    /\ LitAt(s, i, <<"_">>)
    /\ DigitsAt(s, i + 1, lm)
    /\ LitAt(s, i + 1 + lm, <<"-">>)
    /\ DigitsAt(s, i + 2 + lm, ld)
    /\ LitAt(s, i + 2 + lm + ld, <<"-">>)
    /\ DigitsAt(s, i + 3 + lm + ld, 2)
    /\ LitAt(s, i + 5 + lm + ld, DotHtml)
    /\ AtEnd(s, i + 10 + lm + ld)

\* re.search(pattern, filename): the leftmost position that matches, each
\* \d{1,2} taking two digits before one; the groups, or None.
re_search(s) ==
    LET hits == {i \in 1..Len(s) :
                    s[i] = "_" /\ \E lm \in 1..2, ld \in 1..2 : PatternAt(s, i, lm, ld)}
    IN  IF hits = {} THEN None
        ELSE LET i  == CHOOSE h \in hits : \A g \in hits : h <= g
                 lm == IF \E ld \in 1..2 : PatternAt(s, i, 2, ld) THEN 2 ELSE 1
                 ld == IF PatternAt(s, i, lm, 2) THEN 2 ELSE 1
             IN  [kind  |-> "match",
                  month |-> SubSeq(s, i + 1, i + lm),
                  day   |-> SubSeq(s, i + 2 + lm, i + 1 + lm + ld),
                  year  |-> SubSeq(s, i + 3 + lm + ld, i + 4 + lm + ld)]

Century == 2000

is_leap(y) == y % 4 = 0 /\ (y % 100 # 0 \/ y % 400 = 0)

days_in_month(y, m) ==
    IF m = 2 THEN (IF is_leap(y) THEN 29 ELSE 28)
    ELSE IF m \in {4, 6, 9, 11} THEN 30
    ELSE 31

\* The constructor taking any day of a real month.
datetime_month_only(y, m, d) ==
    IF m >= 1 /\ m <= 12
    THEN [kind |-> "date", date |-> <<y, m, d>>]
    ELSE [kind |-> "ValueError"]

\* datetime(year, month, day): the date, or ValueError
datetime(y, m, d) ==
    IF m >= 1 /\ m <= 12 /\ d >= 1 /\ d <= days_in_month(y, m)
    THEN [kind |-> "date", date |-> <<y, m, d>>]
    ELSE [kind |-> "ValueError"]

\* The same function without its except clause: the ValueError escapes.
extract_date_no_except(filename) ==
    LET match == re_search(filename)
    IN  IF match.kind = "match"
        THEN datetime(Century + int(match.year), int(match.month), int(match.day))
        ELSE None

\* The same function reading the groups as day, month, year.
extract_date_day_first(filename) ==
    LET match == re_search(filename)
    IN  IF match.kind = "match"
        THEN LET made == datetime(Century + int(match.year), int(match.day),
                                  int(match.month))
             IN  IF made.kind = "ValueError" THEN None ELSE made
        ELSE None

extract_date_from_filename(filename) ==
    LET match == re_search(filename)
    IN  IF match.kind = "match"
        THEN LET full_year == Century + int(match.year)
                 made == datetime(full_year, int(match.month), int(match.day))
             IN  IF made.kind = "ValueError" THEN None ELSE made
        ELSE None

\* ------------------------------------------------------------ the directory

\* The file not there: a text no content of a file equals
NoFile == <<"no file">>

\* The name of the output file inside docs/
FilesJsonName == <<"f", "i", "l", "e", "s", ".", "j", "s", "o", "n">>

\* Every name directly inside docs/
Listing(names, manifest) ==
    names \union (IF manifest = NoFile THEN {} ELSE {FilesJsonName})

\* fnmatch of '*.html': the whole name is anything followed by .html
fnmatch_html(name) ==
    /\ Len(name) >= Len(DotHtml)
    /\ SubSeq(name, Len(name) - Len(DotHtml) + 1, Len(name)) = DotHtml

\* The same match with the dot of the pattern left out of the comparison.
glob_any_suffix(names, manifest) ==
    {n \in Listing(names, manifest) :
        Len(n) >= 4 /\ SubSeq(n, Len(n) - 3, Len(n)) \in {<<"h", "t", "m", "l">>, <<"j", "s", "o", "n">>}}

\* docs_dir.glob('*.html'): the matching names, as a set; the order the
\* directory yields them in is chosen by main.
glob(names, manifest) == {n \in Listing(names, manifest) : fnmatch_html(n)}

\* Every order a set of names can be enumerated in
Orders(S) ==
    {f \in [1..Cardinality(S) -> S] : \A i, j \in 1..Cardinality(S) : f[i] = f[j] => i = j}

\* ------------------------------------------------------------------ sorting

\* datetime.__lt__ on <<year, month, day>>
date_lt(a, b) ==
    \/ a[1] < b[1]
    \/ (a[1] = b[1] /\ a[2] < b[2])
    \/ (a[1] = b[1] /\ a[2] = b[2] /\ a[3] < b[3])

\* s with x put in behind its first k elements
InsertAt(s, k, x) == SubSeq(s, 1, k) \o <<x>> \o SubSeq(s, k + 1, Len(s))

\* The sort without reverse=True: oldest first.
RECURSIVE sort_oldest_first(_)
sort_oldest_first(pairs) ==
    IF pairs = <<>> THEN <<>>
    ELSE LET done == sort_oldest_first(SubSeq(pairs, 1, Len(pairs) - 1))
             x    == pairs[Len(pairs)]
             k    == Cardinality({i \in 1..Len(done) : ~date_lt(x[1], done[i][1])})
         IN  InsertAt(done, k, x)

\* files_with_dates.sort(key=lambda x: x[0], reverse=True): newest first, and
\* stable, so equal dates keep the order they were appended in: each pair
\* goes behind every pair whose date is not older than its own.
RECURSIVE sort_by_date_reverse(_)
sort_by_date_reverse(pairs) ==
    IF pairs = <<>> THEN <<>>
    ELSE LET done == sort_by_date_reverse(SubSeq(pairs, 1, Len(pairs) - 1))
             x    == pairs[Len(pairs)]
             k    == Cardinality({i \in 1..Len(done) : ~date_lt(done[i][1], x[1])})
         IN  InsertAt(done, k, x)

\* The undated names left in the order they were found.
sorted_not_sorted(names) == names

\* sorted(files_without_dates): ascending str order
RECURSIVE sorted(_)
sorted(names) ==
    IF names = <<>> THEN <<>>
    ELSE LET done == sorted(SubSeq(names, 1, Len(names) - 1))
             x    == names[Len(names)]
             k    == Cardinality({i \in 1..Len(done) : ~str_lt(x, done[i])})
         IN  InsertAt(done, k, x)

\* ---------------------------------------------------------------- json.dump

Indent == 2

RECURSIVE Spaces(_)
Spaces(n) == IF n = 0 THEN <<>> ELSE <<" ">> \o Spaces(n - 1)

\* The escapes of the encoder for the characters of the model
RECURSIVE json_escape(_)
json_escape(s) ==
    IF s = <<>> THEN <<>>
    ELSE (CASE s[1] = "\n" -> <<"\\", "n">>
            [] s[1] = "\"" -> <<"\\", "\"">>
            [] s[1] = "\\" -> <<"\\", "\\">>
            [] OTHER -> <<s[1]>>) \o json_escape(Tail(s))

json_str(s) == <<"\"">> \o json_escape(s) \o <<"\"">>

RECURSIVE json_items(_)
json_items(list) ==
    IF Len(list) = 1 THEN json_str(list[1])
    ELSE json_str(list[1]) \o <<",", "\n">> \o Spaces(Indent) \o json_items(Tail(list))

\* The file opened with 'a': the new text lands behind the old.
json_dump_append(list, old) ==
    (IF old = NoFile THEN <<>> ELSE old)
    \o (IF list = <<>> THEN <<"[", "]">>
        ELSE <<"[", "\n">> \o Spaces(Indent) \o json_items(list) \o <<"\n", "]">>)

\* The encoder breaking the line inside an empty array as inside any other.
json_dump_empty_indented(list, old) ==
    <<"[", "\n">>
    \o (IF list = <<>> THEN <<>> ELSE Spaces(Indent) \o json_items(list) \o <<"\n">>)
    \o <<"]">>

\* open(output_path, 'w') and json.dump(list, f, indent=2): the file's new
\* content, whatever it held
json_dump(list, old) ==
    IF list = <<>> THEN <<"[", "]">>
    ELSE <<"[", "\n">> \o Spaces(Indent) \o json_items(list) \o <<"\n", "]">>

\* --------------------------------------------------------------------- main

NotRun == [kind |-> "NotRun"]

NoInput == [kind |-> "NoInput"]

\* The for loop: each name with what extract_date_from_filename returns
RECURSIVE classify(_)
classify(html) ==
    IF html = <<>> THEN <<>>
    ELSE <<[filename |-> html[1], date |-> extract_date_from_filename(html[1])]>>
         \o classify(Tail(html))

\* if date: the datetime is true, None is false
IsDated(f) == f.date.kind = "date"

IsUndated(f) == f.date = None

\* files_with_dates as the loop appends to it
dated_pairs(found) ==
    LET with == SelectSeq(found, IsDated)
    IN  [i \in 1..Len(with) |-> <<with[i].date.date, with[i].filename>>]

\* files_without_dates as the loop appends to it
undated_names(found) ==
    LET without == SelectSeq(found, IsUndated)
    IN  [i \in 1..Len(without) |-> without[i].filename]

\* An exception of extract_date_from_filename, which main does not catch
raises(found) == \E i \in 1..Len(found) : found[i].date.kind = "ValueError"

\* The names of the list (date, filename)
filenames(pairs) == [i \in 1..Len(pairs) |-> pairs[i][2]]

\* The undated names put in front of the dated ones.
combine_undated_first(with_dates, without) == sorted(without) \o filenames(with_dates)

\* sorted_filenames: dated files first, then undated files alphabetically
combine(with_dates, without) == filenames(with_dates) \o sorted(without)

\* The summary main prints after writing the file
summary(all, n_dated, n_undated) ==
    <<[line |-> "generated", arg |-> FilesJsonName],
      [line |-> "total", arg |-> Len(all)],
      [line |-> "dated", arg |-> n_dated],
      [line |-> "undated", arg |-> n_undated]>>
    \o (IF all # <<>> THEN <<[line |-> "newest", arg |-> all[1]]>> ELSE <<>>)
    \o (IF Len(all) > 1 THEN <<[line |-> "oldest", arg |-> all[Len(all)]]>> ELSE <<>>)

\* main() from the scan on, the directory yielding its entries in this order
main_scan(order) ==
    /\ html_files' = order
    /\ \E found \in {classify(order)} :
        IF raises(found)
        THEN /\ files_with_dates' = <<>>
             /\ files_without_dates' = <<>>
             /\ sorted_filenames' = <<>>
             /\ files_json' = files_json
             /\ stdout' = <<[line |-> "traceback", arg |-> "ValueError"]>>
             /\ exit_status' = 1
        ELSE /\ files_with_dates' = sort_by_date_reverse(dated_pairs(found))
             /\ files_without_dates' = undated_names(found)
             /\ sorted_filenames' = combine(files_with_dates', files_without_dates')
             /\ files_json' = json_dump(sorted_filenames', files_json)
             /\ stdout' = summary(sorted_filenames', Len(files_with_dates'),
                                  Len(files_without_dates'))
             /\ exit_status' = 0

\* The same branch leaving an empty manifest behind before it returns.
main_not_found_writes ==
    /\ html_files' = <<>>
    /\ files_with_dates' = <<>>
    /\ files_without_dates' = <<>>
    /\ sorted_filenames' = <<>>
    /\ files_json' = <<"[", "]">>
    /\ stdout' = <<[line |-> "error", arg |-> "docs directory not found"]>>
    /\ exit_status' = 0

\* main() finding no docs: the message, and the return
main_not_found ==
    /\ html_files' = <<>>
    /\ files_with_dates' = <<>>
    /\ files_without_dates' = <<>>
    /\ sorted_filenames' = <<>>
    /\ files_json' = files_json
    /\ stdout' = <<[line |-> "error", arg |-> "docs directory not found"]>>
    /\ exit_status' = 0

\* The names of html that share their date with another name of html, in
\* the order of html
Ties(html) ==
    LET Shared(n) == \E i \in 1..Len(html) :
                        /\ html[i] # n
                        /\ extract_date_from_filename(n).kind = "date"
                        /\ extract_date_from_filename(html[i]) = extract_date_from_filename(n)
    IN  SelectSeq(html, Shared)

\* One run of the script
main ==
    /\ runs < MaxRuns
    /\ runs' = runs + 1
    /\ before' = [docs_exists |-> docs_exists, entries |-> entries,
                  files_json |-> files_json]
    /\ prev_ties' = Ties(html_files)
    /\ unchanged' = (runs >= 1 /\ ~dirty)
    /\ dirty' = FALSE
    /\ IF ~docs_exists
       THEN main_not_found
       ELSE \E order \in Orders(glob(entries, files_json)) : main_scan(order)
    /\ UNCHANGED <<docs_exists, entries, edits, input>>

\* The script run once and not again
main_once == runs = 0 /\ main

\* ---------------------------------------------------------- the environment

Report ==
    <<"r", "e", "p", "o", "r", "t", "_", "0", "1", "-", "1", "5", "-", "2", "4",
      ".", "h", "t", "m", "l">>

Notes ==
    <<"n", "o", "t", "e", "s", "_", "1", "2", "-", "3", "1", "-", "2", "3",
      ".", "h", "t", "m", "l">>

Index == <<"i", "n", "d", "e", "x", ".", "h", "t", "m", "l">>

Draft ==
    <<"d", "r", "a", "f", "t", "_", "0", "2", "-", "3", "0", "-", "2", "4",
      ".", "h", "t", "m", "l">>

Memo ==
    <<"m", "e", "m", "o", "_", "1", "-", "1", "5", "-", "2", "4",
      ".", "h", "t", "m", "l">>

Gone ==
    <<"g", "o", "n", "e", "_", "0", "3", "-", "0", "1", "-", "2", "2",
      ".", "h", "t", "m", "l">>

Readme == <<"r", "e", "a", "d", "m", "e", ".", "t", "x", "t">>

\* The names a directory may hold
Universe == {Report, Notes, Index, Draft, Memo, Readme}

\* A manifest left by an earlier run, naming a file that is gone since
StaleManifest == json_dump(<<Gone, Index>>, NoFile)

Locals == <<html_files, files_with_dates, files_without_dates, sorted_filenames,
            stdout, exit_status, before, prev_ties, unchanged, runs>>

add_entry(n) ==
    /\ edits < MaxEdits
    /\ docs_exists
    /\ n \notin entries
    /\ Cardinality(entries) < MaxEntries
    /\ entries' = entries \union {n}
    /\ edits' = edits + 1
    /\ dirty' = TRUE
    /\ UNCHANGED <<docs_exists, files_json, input>>
    /\ UNCHANGED Locals

remove_entry(n) ==
    /\ edits < MaxEdits
    /\ docs_exists
    /\ n \in entries
    /\ entries' = entries \ {n}
    /\ edits' = edits + 1
    /\ dirty' = TRUE
    /\ UNCHANGED <<docs_exists, files_json, input>>
    /\ UNCHANGED Locals

remove_docs ==
    /\ edits < MaxEdits
    /\ docs_exists
    /\ docs_exists' = FALSE
    /\ entries' = {}
    /\ files_json' = NoFile
    /\ edits' = edits + 1
    /\ dirty' = TRUE
    /\ UNCHANGED input
    /\ UNCHANGED Locals

make_docs ==
    /\ edits < MaxEdits
    /\ ~docs_exists
    /\ docs_exists' = TRUE
    /\ edits' = edits + 1
    /\ dirty' = TRUE
    /\ UNCHANGED <<entries, files_json, input>>
    /\ UNCHANGED Locals

InitLocals ==
    /\ html_files = <<>>
    /\ files_with_dates = <<>>
    /\ files_without_dates = <<>>
    /\ sorted_filenames = <<>>
    /\ stdout = <<>>
    /\ exit_status = NotRun
    /\ before = NotRun
    /\ prev_ties = <<>>
    /\ unchanged = FALSE
    /\ dirty = FALSE
    /\ runs = 0
    /\ edits = 0

\* Any directory, or none, the script starts on
InitDir(names, most) ==
    /\ docs_exists \in BOOLEAN
    /\ entries \in {S \in SUBSET names : Cardinality(S) <= most}
    /\ files_json \in {NoFile, StaleManifest}
    /\ ~docs_exists => (entries = {} /\ files_json = NoFile)
    /\ input = NoInput
    /\ InitLocals

\* Runs of the script on a directory that changes between them
Init == InitDir(Universe, MaxEntries)

Next ==
    \/ main
    \/ \E n \in Universe : add_entry(n)
    \/ \E n \in Universe : remove_entry(n)
    \/ remove_docs
    \/ make_docs

Spec == Init /\ [][Next]_vars

\* One run of the script on any directory
InitOrder == InitDir(Universe, MaxFiles)

NextOrder == main_once

SpecOrder == InitOrder /\ [][NextOrder]_vars

\* -------------------------------------------------- one entry, name by name

\* n written in decimal, with zeros in front up to the width
Decimal(n, width) ==
    LET plain == IF n < 10 THEN <<Digits[n + 1]>>
                 ELSE <<Digits[(n \div 10) + 1], Digits[(n % 10) + 1]>>
    IN  [i \in 1..(IF width > Len(plain) THEN width - Len(plain) ELSE 0) |-> "0"] \o plain

Stems == {<<"a">>, <<"b", "_", "7">>}

Separators == {"_", "-"}

Months == {0, 1, 2, 4, 12, 13}

Days == {0, 1, 28, 29, 30, 31, 32}

Years == {0, 23, 24}

MonthWidths == {1, 2, 3}

DayWidths == {1, 2}

YearWidths == {1, 2, 3}

Tails == {DotHtml, <<".", "H", "T", "M", "L">>, DotHtml \o <<"\n">>, <<".", "h", "t", "m">>}

\* The name the parts spell
Rendered(in) ==
    in.stem \o <<in.sep>> \o Decimal(in.month, in.month_width) \o <<"-">>
    \o Decimal(in.day, in.day_width) \o <<"-">> \o Decimal(in.year, in.year_width)
    \o in.tail

\* A directory holding one entry, its name spelt from parts
InitExtract ==
    /\ input \in [stem : Stems, sep : Separators, month : Months,
                  month_width : MonthWidths, day : Days, day_width : DayWidths,
                  year : Years, year_width : YearWidths, tail : Tails]
    /\ docs_exists = TRUE
    /\ entries = {Rendered(input)}
    /\ files_json = NoFile
    /\ InitLocals

NextExtract == main_once

SpecExtract == InitExtract /\ [][NextExtract]_vars

\* ------------------------------------------------------- reading the output

\* The backslashes right in front of position i
BackslashRun(f, i) ==
    CHOOSE k \in 0..(i - 1) :
        /\ \A j \in 1..k : f[i - j] = "\\"
        /\ (k = i - 1 \/ f[i - k - 1] # "\\")

\* The quotes that open or close a string of the text
Quotes(f) == {i \in 1..Len(f) : f[i] = "\"" /\ BackslashRun(f, i) % 2 = 0}

RECURSIVE Unescaped(_)
Unescaped(s) ==
    IF s = <<>> THEN <<>>
    ELSE IF s[1] = "\\" /\ Len(s) >= 2
    THEN <<(IF s[2] = "n" THEN "\n" ELSE s[2])>> \o Unescaped(SubSeq(s, 3, Len(s)))
    ELSE <<s[1]>> \o Unescaped(Tail(s))

\* The strings a JSON text holds, in order
Strings(f) ==
    LET q == Quotes(f)
        At(k) == CHOOSE i \in q : Cardinality({j \in q : j <= i}) = k
    IN  [m \in 1..(Cardinality(q) \div 2) |->
            Unescaped(SubSeq(f, At(2 * m - 1) + 1, At(2 * m) - 1))]

\* The filenames of the manifest on disk
Manifest == IF files_json = NoFile THEN <<>> ELSE Strings(files_json)

\* ------------------------------------------------- what the claims speak of

\* The entries of Universe whose name ends in .html
HtmlNames == {Report, Notes, Index, Draft, Memo}

\* The date each of them carries: year, month, day; Draft's Feb 30 is none
DateKey(n) ==
    CASE n = Report -> <<2024, 1, 15>>
      [] n = Memo -> <<2024, 1, 15>>
      [] n = Notes -> <<2023, 12, 31>>
      [] OTHER -> <<>>

HasDate(n) == DateKey(n) # <<>>

\* A date as one number that grows with the calendar
Ordinal(k) == k[1] * 10000 + k[2] * 100 + k[3]

\* The names in dictionary order
Alphabetical == <<Draft, Index, Memo, Notes, Readme, Report>>

Rank(n) == CHOOSE i \in 1..Len(Alphabetical) : Alphabetical[i] = n

\* The latest run found docs/ and its result is still what the disk holds
Generated == runs >= 1 /\ ~dirty /\ before.docs_exists

\* The latest run found no docs/, and nothing was touched since
NotFound == runs >= 1 /\ ~dirty /\ ~before.docs_exists

\* The .html entries the latest run had in front of it
Scanned == before.entries \intersect HtmlNames

\* ------------------------------------------------------------------- claims

\* C1: the manifest is all dated filenames, newest first, followed by all
\* undated filenames in ascending filename order, whatever the directory
\* holds and in whatever order it is enumerated.
C1_DatedNewestFirstThenUndatedAscending ==
    Generated =>
        LET M == Manifest
            k == Cardinality({n \in Scanned : HasDate(n)})
        IN  /\ Len(M) = Cardinality(Scanned)
            /\ Range(M) = Scanned
            /\ \A i \in 1..Len(M) : HasDate(M[i]) <=> i <= k
            /\ \A i, j \in 1..k :
                  i < j => Ordinal(DateKey(M[i])) >= Ordinal(DateKey(M[j]))
            /\ \A i, j \in (k + 1)..Len(M) : i < j => Rank(M[i]) <= Rank(M[j])

\* C1's case: an older dated file enumerated before a newer one, and two
\* undated files enumerated against the alphabet
C1_Witness ==
    /\ Generated
    /\ html_files = <<Index, Notes, Draft, Report>>
    /\ Manifest = <<Report, Notes, Draft, Index>>

\* C9: report_01-15-24, notes_12-31-23, index and draft_02-30-24 give the
\* manifest [report, notes, draft, index] in any enumeration order.
C9_Example ==
    (Generated /\ before.entries = {Report, Notes, Index, Draft})
        => Manifest = <<Report, Notes, Draft, Index>>

\* C9's case: the four files enumerated in the reverse of the expected order
C9_Witness ==
    /\ Generated
    /\ before.entries = {Report, Notes, Index, Draft}
    /\ html_files = <<Index, Draft, Notes, Report>>
    /\ exit_status = 0

\* C10: the manifest holds every scanned .html entry exactly once and nothing
\* else (never files.json); the dated and undated groups are disjoint, cover
\* the scan, and their counts add up to the manifest's length.
C10_ManifestIsPermutationOfScan ==
    Generated =>
        LET M == Manifest
            with == {files_with_dates[i][2] : i \in 1..Len(files_with_dates)}
            without == Range(files_without_dates)
        IN  /\ Range(M) = Scanned
            /\ Len(M) = Cardinality(Scanned)
            /\ \A i, j \in 1..Len(M) : M[i] = M[j] => i = j
            /\ with \intersect without = {}
            /\ with \union without = Scanned
            /\ Len(M) = Len(files_with_dates) + Len(files_without_dates)
            /\ FilesJsonName \notin Range(M)
            /\ M = sorted_filenames

\* C10's case: a run over dated and undated files beside a file that is not
\* .html and a manifest that was already there
C10_Witness ==
    /\ Generated
    /\ before.files_json # NoFile
    /\ Readme \in before.entries
    /\ Len(files_with_dates) >= 1
    /\ Len(files_without_dates) >= 1
    /\ Len(Manifest) = 3

\* What main prints when docs/ is missing
ErrorText == <<[line |-> "error", arg |-> "docs directory not found"]>>

\* C4: with no docs/ the run reports the missing directory and leaves the
\* filesystem as it found it: no manifest is created, nothing is modified.
C4_MissingDirectoryNoSideEffect ==
    NotFound =>
        /\ stdout = ErrorText
        /\ docs_exists = before.docs_exists
        /\ entries = before.entries
        /\ files_json = before.files_json
        /\ files_json = NoFile

\* C4's case: a run after docs/, manifest and all, was removed
C4_Witness ==
    /\ NotFound
    /\ runs = 2
    /\ edits = 1
    /\ stdout = ErrorText

\* C5 as stated: a second run on an unchanged directory leaves the same
\* bytes in the output file, in whatever order each run enumerates.
C5_IdempotentInAnyOrder ==
    (Generated /\ unchanged) => files_json = before.files_json

\* C5 amended: a second run on an unchanged directory leaves the same bytes
\* in the output file whenever both runs enumerate the files that share a
\* date in the same relative order (as they do when no two share one).
C5_IdempotentWhenTiesEnumeratedAlike ==
    (Generated /\ unchanged /\ prev_ties = Ties(html_files))
        => files_json = before.files_json

\* C5's case: a second run over two files of one date and nothing changed
C5_Witness ==
    /\ Generated
    /\ unchanged
    /\ prev_ties = Ties(html_files)
    /\ Len(prev_ties) = 2
    /\ files_json = before.files_json

\* C6: every filename of the manifest names an .html entry that was in the
\* directory at the run's scan; nothing of an earlier manifest survives
\* unless the file is still there.
C6_ManifestNamesOnlyScannedEntries ==
    Generated => \A n \in Range(Manifest) : n \in before.entries /\ n \in HtmlNames

\* C6's case: the manifest before the run named a file that was removed
\* since, and the new one does not
C6_Witness ==
    /\ Generated
    /\ runs = 2
    /\ before.files_json # NoFile
    /\ \E n \in Range(Strings(before.files_json)) :
          /\ n \in HtmlNames
          /\ n \notin before.entries
          /\ n \notin Range(Manifest)
    /\ Len(Manifest) >= 1

\* C7: on a directory without .html entries the run ends normally and the
\* output file holds [], whatever it held before.
C7_EmptyDirectoryWritesEmptyArray ==
    (Generated /\ Scanned = {}) => (files_json = <<"[", "]">> /\ exit_status = 0)

\* C7's case: no .html entry, and an earlier manifest that named some
C7_Witness ==
    /\ Generated
    /\ Scanned = {}
    /\ Readme \in before.entries
    /\ before.files_json = StaleManifest
    /\ files_json = <<"[", "]">>

\* C8: every run ends with the normal exit status; the missing directory
\* shows in the printed text alone.
C8_ExitsNormally ==
    runs >= 1 =>
        /\ exit_status = 0
        /\ \A i \in 1..Len(stdout) : stdout[i].line # "traceback"
        /\ ~before.docs_exists => stdout = ErrorText

\* C8's case: a run that met a name whose date no calendar holds
C8_Witness ==
    /\ runs >= 1
    /\ before.docs_exists
    /\ Draft \in Range(html_files)
    /\ exit_status = 0

\* The single entry's name
TheName == Rendered(input)

\* The name ends with an underscore, one or two digits, a hyphen, one or two
\* digits, a hyphen, two digits and .html
HasSuffix(in) ==
    /\ in.sep = "_"
    /\ Len(Decimal(in.month, in.month_width)) \in {1, 2}
    /\ Len(Decimal(in.day, in.day_width)) \in {1, 2}
    /\ Len(Decimal(in.year, in.year_width)) = 2
    /\ in.tail = DotHtml

\* The days of the months of a year of this century: every fourth is leap
MonthLengths(y) ==
    <<31, IF y \in {Century + 4 * k : k \in 0..24} THEN 29 ELSE 28, 31, 30, 31, 30,
      31, 31, 30, 31, 30, 31>>

\* (2000 + YY, MM, DD) is a day of the calendar
OnCalendar(in) ==
    /\ in.month \in 1..12
    /\ in.day >= 1
    /\ in.day <= MonthLengths(Century + in.year)[in.month]

\* The run has scanned the single entry
ScannedTheName == runs = 1 /\ input.tail = DotHtml

\* C2: a name ending in _MM-DD-YY.html whose (2000+YY, MM, DD) is a day of the
\* calendar yields the date with that year, month and day, leading zeros or
\* not.
C2_ExtractedDateIsYearMonthDay ==
    (ScannedTheName /\ HasSuffix(input) /\ OnCalendar(input)) =>
        files_with_dates =
            << <<(<<Century + input.year, input.month, input.day>>), TheName>> >>

\* C2's case: YY = 00 and a month with a leading zero: Feb 29 of 2000
C2_Witness ==
    /\ ScannedTheName
    /\ HasSuffix(input)
    /\ input.year = 0
    /\ input.month = 2
    /\ input.month_width = 2
    /\ input.day = 29
    /\ files_with_dates = << <<(<<2000, 2, 29>>), TheName>> >>

\* C3: a scanned name is dated exactly when it ends with the suffix and its
\* (2000+YY, MM, DD) is a day of the calendar; any other is undated, raises
\* no error and is in the manifest all the same.
C3_DatedIffSuffixAndCalendar ==
    ScannedTheName =>
        /\ exit_status = 0
        /\ Manifest = <<TheName>>
        /\ IF HasSuffix(input) /\ OnCalendar(input)
           THEN /\ Len(files_with_dates) = 1
                /\ files_with_dates[1][2] = TheName
                /\ files_without_dates = <<>>
           ELSE /\ files_with_dates = <<>>
                /\ files_without_dates = <<TheName>>

\* C3's case: the suffix is there and spells Feb 30
C3_Witness ==
    /\ ScannedTheName
    /\ HasSuffix(input)
    /\ input.month = 2
    /\ input.day = 30
    /\ files_without_dates = <<TheName>>
    /\ Manifest = <<TheName>>

====
